---- MODULE Spec2Model ----
(***************************************************************************)
(* Model of AssureDependence.py: DependencyScanner.scan_all and the        *)
(* detectors, scanners and end-of-life checkers it calls.                  *)
(*                                                                         *)
(* Python str values are TLA+ strings; a Windows path separator is the     *)
(* one-character string "\\".  Python None is the string constant None.    *)
(* A dict is a function whose DOMAIN is the set of its keys; a list is a   *)
(* sequence.                                                               *)
(***************************************************************************)
EXTENDS Integers, Sequences, FiniteSets, TLC

VARIABLES
    pc,                   \* position of the interpreter inside scan_all
    calls,                \* history: start/end events of the phases of scan_all
    installs,             \* the local dict of the detector that is running
    sql_installs,         \* detect_sql_databases' local sql_installs
    frameworks,           \* detect_frameworks' local frameworks
    installed_frameworks, \* self.installed_frameworks
    dependencies,         \* self.dependencies (defaultdict(list))
    report,               \* the value scan_all returns
    raised,               \* the exception that escaped scan_all, or None
    produced,             \* history: the records the detectors stored, in order
    procs_seen,           \* history: the processes process_iter yielded, in order
    items,                \* number of OS items enumerated so far
    eol_fn,               \* EOL checker applied (pure-function specification)
    eol_v,                \* its argument
    eol_res               \* its result

scan_vars == <<pc, calls, installs, sql_installs, frameworks, installed_frameworks,
               dependencies, report, raised, produced, procs_seen, items>>
eol_vars == <<eol_fn, eol_v, eol_res>>
vars == <<scan_vars, eol_vars>>

None == "<None>"

----------------------------------------------------------------------------
(* Bounds *)

\* OS items (registry entries, CLI lines, services, files, processes) one scan enumerates
MaxItems == 3
\* length of the version strings the EOL checkers are applied to
MaxLen == 4

----------------------------------------------------------------------------
(* Python str operations *)

\* s[i-1:i]: the character at position i, "" outside the string
CharAt(s, i) == IF 1 <= i /\ i <= Len(s) THEN SubSeq(s, i, i) ELSE ""

\* str.startswith
StartsWith(s, p) == Len(s) >= Len(p) /\ SubSeq(s, 1, Len(p)) = p

\* s[i:].startswith(p), i counted from 1
MatchAt(s, i, p) == i + Len(p) - 1 <= Len(s) /\ SubSeq(s, i, i + Len(p) - 1) = p

\* `sub in s`
Contains(s, sub) == \E i \in 1..(Len(s) - Len(sub) + 1) : MatchAt(s, i, sub)

UpperChars == "ABCDEFGHIJKLMNOPQRSTUVWXYZ"
LowerChars == "abcdefghijklmnopqrstuvwxyz"

LowerChar(c) ==
    IF \E i \in 1..Len(UpperChars) : CharAt(UpperChars, i) = c
    THEN CharAt(LowerChars, CHOOSE i \in 1..Len(UpperChars) : CharAt(UpperChars, i) = c)
    ELSE c

\* str.lower
RECURSIVE Lower(_)
Lower(s) == IF s = "" THEN "" ELSE LowerChar(CharAt(s, 1)) \o Lower(Tail(s))

Digits == "0123456789"
IsDigit(c) == \E i \in 1..Len(Digits) : CharAt(Digits, i) = c
DigitVal(c) == (CHOOSE i \in 1..Len(Digits) : CharAt(Digits, i) = c) - 1

\* the positions of s that hold character c
Positions(s, c) == {i \in 1..Len(s) : CharAt(s, i) = c}

SetMin(S) == CHOOSE m \in S : \A k \in S : m <= k
SetMax(S) == CHOOSE m \in S : \A k \in S : m >= k

\* str.split(sep) for a one-character sep: a list with at least one element
RECURSIVE Split(_, _)
Split(s, sep) ==
    IF Positions(s, sep) = {} THEN <<s>>
    ELSE LET i == SetMin(Positions(s, sep))
         IN <<SubSeq(s, 1, i - 1)>> \o Split(SubSeq(s, i + 1, Len(s)), sep)

\* whether int(s) succeeds.  The strings of this model hold no sign, blank
\* or underscore, so int(s) succeeds exactly on non-empty strings of digits.
IsInt(s) == s # "" /\ \A i \in 1..Len(s) : IsDigit(CharAt(s, i))

\* int(s) for s with IsInt(s)
RECURSIVE ParseInt(_)
ParseInt(s) ==
    IF s = "" THEN 0
    ELSE 10 * ParseInt(SubSeq(s, 1, Len(s) - 1)) + DigitVal(CharAt(s, Len(s)))

----------------------------------------------------------------------------
(* EOL checker methods *)

EolStatuses == {"EOL", "Supported", "Unknown"}

\* int(v.split('.')[1]) raises IndexError or ValueError inside the bare except
check_java_eol(v) ==
    LET parts == Split(v, ".")
    IN IF Len(parts) < 2 \/ ~IsInt(parts[2]) THEN "Unknown"
       ELSE IF ParseInt(parts[2]) < 11 THEN "EOL" ELSE "Supported"

\* The list literal of line 286: '6.0' '7.0' has no comma between the two
\* strings, and Python concatenates adjacent literals.
eol_versions == <<"1.0", "1.1", "2.0", "2.1", "2.2", "3.0", "3.1", "5.0", "6.0" \o "7.0">>

check_dotnet_core_eol(v) ==
    IF \E i \in 1..Len(eol_versions) : StartsWith(v, eol_versions[i])
    THEN "EOL" ELSE "Supported"

check_mssql_eol(v) ==
    LET major == Split(v, ".")[1]
    IN IF ~IsInt(major) THEN "Unknown"
       ELSE IF ParseInt(major) < 13 THEN "EOL" ELSE "Supported"

\* v is always a str here, so the except branch is never taken
check_mysql_eol(v) == IF StartsWith(v, "5.") THEN "EOL" ELSE "Supported"

check_postgresql_eol(v) ==
    LET major == Split(v, ".")[1]
    IN IF ~IsInt(major) THEN "Unknown"
       ELSE IF ParseInt(major) < 12 THEN "EOL" ELSE "Supported"

----------------------------------------------------------------------------
(* dict operations *)

EmptyDict == <<>>

\* an update that keeps the entry d already holds
Update_keep_first(d, e) ==
    [k \in (DOMAIN d) \cup (DOMAIN e) |-> IF k \in DOMAIN d THEN d[k] ELSE e[k]]

\* dict.update: the entries of e replace those of d under the same key
Update(d, e) ==
    [k \in (DOMAIN d) \cup (DOMAIN e) |-> IF k \in DOMAIN e THEN e[k] ELSE d[k]]

\* d[k] = r
Put(d, k, r) == Update(d, [x \in {k} |-> r])

\* self.dependencies[k].append(r) on a defaultdict(list)
AppendTo(d, k, r) ==
    Put(d, k, IF k \in DOMAIN d THEN Append(d[k], r) ELSE <<r>>)

----------------------------------------------------------------------------
(* Phase 1: detect_frameworks *)

\* what the registry enumeration under JavaSoft\Java Runtime Environment can
\* yield: a sub-key name, and the outcome of reading its JavaHome value
JavaEntries ==
    { [version |-> "1.8", home |-> "C:\\Java\\jre8", outcome |-> "ok"],
      [version |-> "17", home |-> "C:\\Java\\jre17", outcome |-> "ok"],
      [version |-> "1.6", home |-> None, outcome |-> "FileNotFoundError"] }

JavaKey(e) == "Java " \o e.version

JavaRecord(e) ==
    [version |-> e.version, path |-> e.home, type |-> "java",
     eol_status |-> check_java_eol(e.version)]

\* end of the run of blanks (sp = TRUE) or of non-blanks (sp = FALSE) of s
\* that starts at position i; i - 1 when the run is empty
RunEnd(s, i, sp) ==
    LET stops == {j \in i..Len(s) : (CharAt(s, j) = " ") # sp}
    IN IF stops = {} THEN Len(s) ELSE SetMin(stops) - 1

\* line.strip() for lines whose only whitespace is the blank
IsBlank(line) == \A i \in 1..Len(line) : CharAt(line, i) = " "

\* re.match(r'([^\s]+)\s+([^\s]+)\s+\[(.*)\]', line): <<runtime, version, path>>,
\* or <<>> when the line does not match
MatchRuntimeLine(line) ==
    LET e1 == RunEnd(line, 1, FALSE)
        e2 == RunEnd(line, e1 + 1, TRUE)
        e3 == RunEnd(line, e2 + 1, FALSE)
        e4 == RunEnd(line, e3 + 1, TRUE)
        closing == {j \in Positions(line, "]") : j > e4 + 1}
    IN IF /\ e1 >= 1 /\ e2 > e1 /\ e3 > e2 /\ e4 > e3
          /\ CharAt(line, e4 + 1) = "["
          /\ closing # {}
       THEN << SubSeq(line, 1, e1), SubSeq(line, e2 + 1, e3),
               SubSeq(line, e4 + 2, SetMax(closing) - 1) >>
       ELSE <<>>

\* lines the stdout of `dotnet --list-runtimes` can hold.  The executable
\* found on PATH decides them, so a line naming any runtime is possible.
DotnetLines ==
    { "Microsoft.NETCore.App 6.0.25 [C:\\dotnet\\shared\\Microsoft.NETCore.App]",
      "Microsoft.NETCore.App 8.0.1 [C:\\dotnet\\shared\\Microsoft.NETCore.App]",
      "Java 1.8 [D:\\rt]",
      "PostgreSQL 13 [D:\\rt]",
      "",
      "No runtimes" }

DotnetKey(m) == m[1] \o " " \o m[2]

DotnetRecord(m) ==
    [version |-> m[2], runtime |-> m[1], path |-> m[3], type |-> "dotnet_core",
     eol_status |-> check_dotnet_core_eol(m[2])]

\* the values under Instance Names\SQL, with the outcome of reading the
\* instance's CurrentVersion and SQLDataRoot
MssqlInstances ==
    { [name |-> "MSSQLSERVER", version |-> "12.0.2000.8", path |-> "C:\\MSSQL12", outcome |-> "ok"],
      [name |-> "SQLEXPRESS", version |-> "15.0.2000.5", path |-> "C:\\MSSQL15", outcome |-> "ok"],
      [name |-> "OLD", version |-> None, path |-> None, outcome |-> "FileNotFoundError"] }

MssqlKey(i) ==
    "Microsoft SQL Server " \o Split(i.version, ".")[1] \o " (Instance: " \o i.name \o ")"

MssqlRecord(i) ==
    [version |-> i.version, path |-> i.path, type |-> "mssql",
     eol_status |-> check_mssql_eol(i.version)]

\* the Windows services psutil.win_service_iter can yield
Services ==
    { [name |-> "MySQL57", display_name |-> "MySQL 5.7.44 ", binpath |-> "C:\\my57\\bin\\mysqld.exe", outcome |-> "ok"],
      [name |-> "mysql57b", display_name |-> "MySQL 5.7.44 ", binpath |-> "D:\\my57\\bin\\mysqld.exe", outcome |-> "ok"],
      [name |-> "MySQL41", display_name |-> "MySQL 4.1.22 ", binpath |-> "C:\\my41\\bin\\mysqld.exe", outcome |-> "ok"],
      [name |-> "MySQL80", display_name |-> "MySQL80 ", binpath |-> "C:\\my80\\bin\\mysqld.exe", outcome |-> "ok"],
      [name |-> "MySQLX", display_name |-> "MySQL ", binpath |-> None, outcome |-> "AccessDenied"],
      [name |-> "postgresql-13", display_name |-> " PostgreSQL 13", binpath |-> "C:\\pg13\\bin\\pg_ctl.exe", outcome |-> "ok"],
      [name |-> "postgresql-x64-9.6", display_name |-> " PostgreSQL 9.6", binpath |-> "C:\\pg96\\bin\\pg_ctl.exe", outcome |-> "ok"],
      [name |-> "PostgreSQL", display_name |-> " database", binpath |-> None, outcome |-> "AccessDenied"],
      [name |-> "Spooler", display_name |-> "Print Spooler", binpath |-> "C:\\Windows\\spoolsv.exe", outcome |-> "ok"] }

\* end of the run of digits of s that starts at position i; i - 1 when empty
DigitsEnd(s, i) ==
    LET stops == {j \in i..Len(s) : ~IsDigit(CharAt(s, j))}
    IN IF stops = {} THEN Len(s) ELSE SetMin(stops) - 1

\* end of a match of \d+\.\d+\.\d+ that starts at position i of s, or 0.
\* Each \d+ is followed by a non-digit, so it takes the whole run of digits.
TripleEnd(s, i) ==
    LET e1 == DigitsEnd(s, i)
        e2 == DigitsEnd(s, e1 + 2)
        e3 == DigitsEnd(s, e2 + 2)
    IN IF /\ e1 >= i /\ CharAt(s, e1 + 1) = "." /\ e2 >= e1 + 2
          /\ CharAt(s, e2 + 1) = "." /\ e3 >= e2 + 2
       THEN e3 ELSE 0

\* re.search(r"(\d+\.\d+\.\d+)", s): group(1) of the leftmost match, or
\* "Unknown" when there is none
MysqlVersion(s) ==
    LET starts == {i \in 1..Len(s) : TripleEnd(s, i) > 0}
    IN IF starts = {} THEN "Unknown"
       ELSE SubSeq(s, SetMin(starts), TripleEnd(s, SetMin(starts)))

\* re.search(r"(\d+(\.\d+)?)", s): group(1) of the leftmost match, or "Unknown"
PostgresqlVersion(s) ==
    LET starts == {i \in 1..Len(s) : IsDigit(CharAt(s, i))}
        i == SetMin(starts)
        e1 == DigitsEnd(s, i)
        e2 == DigitsEnd(s, e1 + 2)
    IN IF starts = {} THEN "Unknown"
       ELSE IF CharAt(s, e1 + 1) = "." /\ e2 >= e1 + 2 THEN SubSeq(s, i, e2)
       ELSE SubSeq(s, i, e1)

\* str(Path(p).parent) for an absolute Windows path p: the drive root is its
\* own parent
Parent(p) ==
    LET seps == Positions(p, "\\")
    IN IF seps = {} THEN "."
       ELSE IF SetMax(seps) = SetMin(seps) THEN SubSeq(p, 1, SetMax(seps))
       ELSE SubSeq(p, 1, SetMax(seps) - 1)

MysqlKey(s) == "MySQL Server " \o MysqlVersion(s.display_name \o s.binpath)

\* the MySQL record classified by the PostgreSQL checker
MysqlRecord_wrong_checker(s) ==
    LET version == MysqlVersion(s.display_name \o s.binpath)
    IN [version |-> version, path |-> Parent(Parent(s.binpath)), type |-> "mysql",
        eol_status |-> check_postgresql_eol(version)]

MysqlRecord(s) ==
    LET version == MysqlVersion(s.display_name \o s.binpath)
    IN [version |-> version, path |-> Parent(Parent(s.binpath)), type |-> "mysql",
        eol_status |-> check_mysql_eol(version)]

PostgresqlKey(s) == "PostgreSQL " \o PostgresqlVersion(s.name \o s.display_name)

PostgresqlRecord(s) ==
    LET version == PostgresqlVersion(s.name \o s.display_name)
    IN [version |-> version, path |-> Parent(Parent(s.binpath)), type |-> "postgresql",
        eol_status |-> check_postgresql_eol(version)]

\* What one iteration of a detector's loop stores: <<key, record>>, or <<>>
\* when the item is skipped (the inner except, or the name or pattern test).
java_finding(e) ==
    IF e.outcome = "ok" THEN <<JavaKey(e), JavaRecord(e)>> ELSE <<>>

dotnet_finding(line) ==
    IF ~IsBlank(line) /\ MatchRuntimeLine(line) # <<>>
    THEN <<DotnetKey(MatchRuntimeLine(line)), DotnetRecord(MatchRuntimeLine(line))>>
    ELSE <<>>

mssql_finding(i) ==
    IF i.outcome = "ok" THEN <<MssqlKey(i), MssqlRecord(i)>> ELSE <<>>

mysql_finding(s) ==
    IF StartsWith(Lower(s.name), "mysql") /\ s.outcome = "ok"
    THEN <<MysqlKey(s), MysqlRecord(s)>> ELSE <<>>

postgresql_finding(s) ==
    IF StartsWith(Lower(s.name), "postgresql") /\ s.outcome = "ok"
    THEN <<PostgresqlKey(s), PostgresqlRecord(s)>> ELSE <<>>

\* the findings of the items the detectors can meet, evaluated once
java_findings == [e \in JavaEntries |-> java_finding(e)]
dotnet_findings == [line \in DotnetLines |-> dotnet_finding(line)]
mssql_findings == [i \in MssqlInstances |-> mssql_finding(i)]
mysql_findings == [s \in Services |-> mysql_finding(s)]
postgresql_findings == [s \in Services |-> postgresql_finding(s)]

----------------------------------------------------------------------------
(* Phase 2: scan_installed_applications *)

\* pathlib parts of the three program directories
program_dirs ==
    { <<"C:\\", "Program Files">>, <<"C:\\", "Program Files (x86)">>, <<"C:\\", "ProgramData">> }

\* default of scan_directory_for_dependencies' max_depth
max_depth_default == 3

\* files of the host, as pathlib parts
FsFiles ==
    { <<"C:\\", "Program Files", "App", "lib", "app.jar">>,
      <<"C:\\", "Program Files (x86)", "tool.JAR">>,
      <<"C:\\", "ProgramData", "svc", "agent.jar">>,
      <<"C:\\", "Program Files", "App", "readme.txt">>,
      <<"C:\\", "Program Files", "App", ".cache", "tmp.jar">>,
      <<"C:\\", "Program Files", "a", "b", "c", "deep.jar">> }

IsPrefix(a, b) == Len(a) <= Len(b) /\ SubSeq(b, 1, Len(a)) = a

\* whether the loop of scan_directory_for_dependencies(directory, max_depth)
\* reaches file f, here or in a recursive call
RECURSIVE Visits(_, _, _)
Visits(directory, max_depth, f) ==
    IF max_depth <= 0 \/ ~IsPrefix(directory, f) \/ Len(f) <= Len(directory) THEN FALSE
    ELSE IF Len(f) = Len(directory) + 1 THEN TRUE
    ELSE LET item == SubSeq(f, 1, Len(directory) + 1)
         IN /\ ~StartsWith(item[Len(item)], ".")
            /\ Visits(item, max_depth - 1, f)

\* PurePath.suffix and PurePath.stem of a file name
Suffix(name) ==
    LET dots == Positions(name, ".")
    IN IF dots = {} \/ SetMax(dots) = 1 \/ SetMax(dots) = Len(name) THEN ""
       ELSE SubSeq(name, SetMax(dots), Len(name))

Stem(name) == SubSeq(name, 1, Len(name) - Len(Suffix(name)))

\* str(file_path)
RECURSIVE PathStr(_)
PathStr(parts) ==
    IF Len(parts) = 1 THEN parts[1]
    ELSE IF Len(parts) = 2 THEN parts[1] \o parts[2]
    ELSE PathStr(SubSeq(parts, 1, Len(parts) - 1)) \o "\\" \o parts[Len(parts)]

\* parts[1] and parts[2] of the code are the second and third part here
get_application_name(file_path) ==
    LET stem == Stem(file_path[Len(file_path)])
    IN IF Len(file_path) < 2 THEN stem
       ELSE IF Contains(Lower(file_path[2]), "program files")
            THEN IF Len(file_path) < 3 THEN stem ELSE file_path[3]
       ELSE IF Contains(Lower(file_path[2]), "windowsapps")
            THEN IF Len(file_path) < 3 THEN stem ELSE Split(file_path[3], "_")[1]
       ELSE stem

\* the record analyze_file_dependencies appends under 'java'
FileRecord(file_path) ==
    [app |-> get_application_name(file_path), file |-> PathStr(file_path),
     framework |-> "Java Runtime", detection_method |-> "static_analysis",
     confidence |-> "high"]

\* what scan_installed_applications does with file f: <<>> when the walk
\* does not reach it or it is no .jar, else <<record>>
file_finding(f) ==
    IF /\ \E d \in program_dirs : Visits(d, max_depth_default, f)
       /\ Lower(Suffix(f[Len(f)])) = ".jar"
    THEN <<FileRecord(f)>> ELSE <<>>

file_findings == [f \in FsFiles |-> file_finding(f)]

----------------------------------------------------------------------------
(* Phase 3: scan_running_processes *)

\* processes psutil.process_iter can yield: proc.info's name and exe, and the
\* outcome and result of proc.memory_maps()
Procs ==
    { [name |-> "web.exe", exe |-> "C:\\web\\web.exe", maps_outcome |-> "ok",
       maps |-> <<"C:\\Windows\\ntdll.dll", "C:\\dotnet\\shared\\Microsoft.NETCore.App\\6.0.25\\coreclr.dll">>],
      [name |-> "api.exe", exe |-> "C:\\api\\api.exe", maps_outcome |-> "ok",
       maps |-> <<"C:\\dotnet\\shared\\Microsoft.AspNetCore.App\\8.0.1\\coreclr.dll">>],
      [name |-> "tool.exe", exe |-> "C:\\tool\\tool.exe", maps_outcome |-> "ok",
       maps |-> <<"C:\\tool\\coreclr.dll">>],
      [name |-> None, exe |-> "C:\\anon\\anon.exe", maps_outcome |-> "ok",
       maps |-> <<"C:\\anon\\CoreCLR.dll">>],
      [name |-> "legacy.exe", exe |-> "C:\\legacy\\legacy.exe", maps_outcome |-> "ok",
       maps |-> <<"C:\\Windows\\Microsoft.NET\\Framework64\\v4.0.30319\\clr.dll">>],
      [name |-> "odd.exe", exe |-> "C:\\odd\\odd.exe", maps_outcome |-> "ok",
       maps |-> <<"C:\\Windows\\Microsoft.NET\\Framework64\\coreclr.dll">>],
      [name |-> "mixed.exe", exe |-> "C:\\mixed\\mixed.exe", maps_outcome |-> "ok",
       maps |-> <<"C:\\Windows\\Microsoft.NET\\Framework64\\v4.0.30319\\clr.dll", "C:\\mixed\\coreclr.dll">>],
      [name |-> "Java.exe", exe |-> "C:\\Java\\bin\\java.exe", maps_outcome |-> "ok",
       maps |-> <<"C:\\Java\\bin\\jvm.dll">>],
      [name |-> "svc.exe", exe |-> "C:\\svc\\svc.exe", maps_outcome |-> "AccessDenied",
       maps |-> <<>>],
      [name |-> "gone.exe", exe |-> "C:\\gone\\gone.exe", maps_outcome |-> "NoSuchProcess",
       maps |-> <<>>],
      [name |-> "System", exe |-> None, maps_outcome |-> "AccessDenied", maps |-> <<>>] }

\* what an f-string makes of a value
PyStr(x) == IF x = None THEN "None" ELSE x

\* whether the pattern
\*   \\dotnet\\shared\\(microsoft\.(?:netcore|aspnetcore)\.app)\\([^\\\\]+)\\coreclr\.dll
\* with group(1) = app matches s from position i: <<group(1), group(2)>>, or <<>>.
\* [^\\]+ is followed by a backslash, so group(2) ends before the next one.
CoreMatchAt(s, i, app) ==
    LET head == "\\dotnet\\shared\\" \o app \o "\\"
        vstart == i + Len(head)
        seps == {j \in vstart..Len(s) : CharAt(s, j) = "\\"}
        vend == IF seps = {} THEN 0 ELSE SetMin(seps) - 1
    IN IF MatchAt(s, i, head) /\ vend >= vstart /\ MatchAt(s, vend + 1, "\\coreclr.dll")
       THEN <<app, SubSeq(s, vstart, vend)>>
       ELSE <<>>

CoreApps == {"microsoft.netcore.app", "microsoft.aspnetcore.app"}

\* re.search of that pattern in s: the groups of the leftmost match, or <<>>
core_match(s) ==
    LET hits == {i \in Positions(s, "\\") : \E app \in CoreApps : CoreMatchAt(s, i, app) # <<>>}
    IN IF hits = {} THEN <<>>
       ELSE CoreMatchAt(s, SetMin(hits),
                        CHOOSE app \in CoreApps : CoreMatchAt(s, SetMin(hits), app) # <<>>)

\* the test of line 241 without its 'microsoft.net' exclusion
is_self_contained_no_exclusion(path_lower) == Contains(path_lower, "coreclr.dll")

\* the test of line 241 on the lower-cased path of a module
is_self_contained(path_lower) ==
    Contains(path_lower, "coreclr.dll") /\ ~Contains(path_lower, "microsoft.net")

\* the loop over proc.memory_maps(): <<version, path>> of the first module
\* that qualifies, <<None, None>> when none does
RECURSIVE ScanMaps(_, _)
ScanMaps(proc, maps) ==
    IF maps = <<>> THEN <<None, None>>
    ELSE LET dll == Head(maps)
             path_lower == Lower(dll)
             m == core_match(path_lower)
         IN IF m # <<>>
            THEN LET parts == Split(m[1], ".")
                 IN <<m[2] \o " (" \o parts[Len(parts) - 1] \o ")", dll>>
            ELSE IF is_self_contained(path_lower)
            THEN <<"Self-Contained (" \o PyStr(proc.name) \o ")", dll>>
            ELSE ScanMaps(proc, Tail(maps))

get_dotnet_core_version_from_process(proc) ==
    IF proc.maps_outcome \in {"AccessDenied", "NoSuchProcess"} THEN <<None, None>>
    ELSE ScanMaps(proc, proc.maps)

\* None.lower() raises inside the bare except
is_java_process(proc) ==
    IF proc.name = None THEN FALSE ELSE Lower(proc.name) \in {"java.exe", "javaw.exe"}

\* subprocess.run is called with capture_output=True and stderr=STDOUT
\* together, which raises ValueError before anything is run: the except
\* branch is always taken
detect_java_version_from_process(proc) == <<"Unknown", proc.exe>>

DotnetProcRecord(proc, pid, found) ==
    [app |-> proc.name, pid |-> pid, file |-> proc.exe,
     framework |-> ".NET Core Runtime " \o found[1], dependency_path |-> found[2],
     detection_method |-> "runtime_analysis", confidence |-> "high", status |-> "running"]

JavaProcRecord(proc, pid, found) ==
    [app |-> proc.name, pid |-> pid, file |-> proc.exe,
     framework |-> "Java Runtime " \o found[1], dependency_path |-> found[2],
     detection_method |-> "runtime_analysis", confidence |-> "high", status |-> "running"]

\* the two probes of analyze_running_process, evaluated once per process
proc_probes ==
    [proc \in Procs |-> [dotnet |-> get_dotnet_core_version_from_process(proc),
                         java |-> is_java_process(proc)]]

\* self.dependencies after analyze_running_process(proc)
analyze_running_process(deps, proc, pid) ==
    LET found == proc_probes[proc].dotnet
        d1 == IF found[1] # None
              THEN AppendTo(deps, "dotnet_runtime", DotnetProcRecord(proc, pid, found))
              ELSE deps
    IN IF proc_probes[proc].java
       THEN AppendTo(d1, "java_runtime",
                     JavaProcRecord(proc, pid, detect_java_version_from_process(proc)))
       ELSE d1

\* the dict generate_report builds
generate_report(frameworks_, deps) ==
    LET cats == DOMAIN deps
        RECURSIVE Total(_)
        Total(S) == IF S = {} THEN 0
                    ELSE LET c == CHOOSE x \in S : TRUE
                         IN Len(deps[c]) + Total(S \ {c})
    IN [scan_summary |-> [frameworks_found |-> Cardinality(DOMAIN frameworks_),
                          dependencies_found |-> Total(cats),
                          scan_timestamp |-> "boot_time"],
        installed_frameworks |-> frameworks_,
        dependencies |-> deps]

----------------------------------------------------------------------------
(* scan_all *)

\* scan_all with the process scan called before the application scan
scan_all_order_swapped ==
    <<"detect_frameworks", "scan_running_processes", "scan_installed_applications",
      "generate_report">>

\* the calls of scan_all, in the order of lines 27 to 30
scan_all_order ==
    <<"detect_frameworks", "scan_installed_applications", "scan_running_processes",
      "generate_report">>

IndexOf(seq, x) == CHOOSE i \in 1..Len(seq) : seq[i] = x

\* the position at which a call starts running
Entry(phase) == IF phase = "detect_frameworks" THEN "detect_java" ELSE phase

\* pc and calls once `phase` has returned to scan_all
Returned(phase) ==
    LET i == IndexOf(scan_all_order, phase)
    IN IF i < Len(scan_all_order)
       THEN /\ pc' = Entry(scan_all_order[i + 1])
            /\ calls' = calls \o << <<phase, "end">>, <<scan_all_order[i + 1], "start">> >>
       ELSE /\ pc' = "done"
            /\ calls' = Append(calls, <<phase, "end">>)

Init ==
    /\ pc = "start"
    /\ calls = <<>>
    /\ installs = EmptyDict
    /\ sql_installs = EmptyDict
    /\ frameworks = EmptyDict
    /\ installed_frameworks = EmptyDict
    /\ dependencies = EmptyDict
    /\ report = None
    /\ raised = None
    /\ produced = <<>>
    /\ procs_seen = <<>>
    /\ items = 0
    /\ eol_fn = None
    /\ eol_v = None
    /\ eol_res = None

ScanAll ==
    /\ pc = "start"
    /\ pc' = Entry(scan_all_order[1])
    /\ calls' = << <<scan_all_order[1], "start">> >>
    /\ UNCHANGED <<installs, sql_installs, frameworks, installed_frameworks, dependencies,
                   report, raised, produced, procs_seen, items, eol_vars>>

\* a detector's loop stores finding = <<key, record>> in its local dict, or
\* skips the item when finding = <<>>
Store(detector, finding) ==
    IF finding # <<>>
    THEN /\ installs' = Put(installs, finding[1], finding[2])
         /\ produced' = Append(produced, [detector |-> detector, key |-> finding[1],
                                          rec |-> finding[2]])
    ELSE UNCHANGED <<installs, produced>>

\* one iteration of detect_java_installations' loop
JavaEnumKey(e) ==
    /\ pc = "detect_java"
    /\ items < MaxItems
    /\ items' = items + 1
    /\ Store("java", java_findings[e])
    /\ UNCHANGED <<pc, calls, sql_installs, frameworks, installed_frameworks, dependencies,
                   report, raised, procs_seen, eol_vars>>

\* detect_java_installations returns java_installs, at the end of the loop
\* or from `except Exception`, and detect_frameworks merges it
JavaReturn(exc) ==
    /\ pc = "detect_java"
    /\ frameworks' = Update(frameworks, installs)
    /\ installs' = EmptyDict
    /\ pc' = "detect_dotnet"
    /\ UNCHANGED <<calls, sql_installs, installed_frameworks, dependencies, report, raised,
                   produced, procs_seen, items, eol_vars>>

\* subprocess.run returned with returncode 0: the loop over stdout starts
DotnetRun ==
    /\ pc = "detect_dotnet"
    /\ pc' = "dotnet_lines"
    /\ UNCHANGED <<calls, installs, sql_installs, frameworks, installed_frameworks,
                   dependencies, report, raised, produced, procs_seen, items, eol_vars>>

\* one line of stdout
DotnetLine(line) ==
    /\ pc = "dotnet_lines"
    /\ items < MaxItems
    /\ items' = items + 1
    /\ Store("dotnet", dotnet_findings[line])
    /\ UNCHANGED <<pc, calls, sql_installs, frameworks, installed_frameworks, dependencies,
                   report, raised, procs_seen, eol_vars>>

\* detect_dotnet_core returns dotnet_versions: after the loop, with a
\* non-zero returncode, or from `except FileNotFoundError`
DotnetReturn(outcome) ==
    /\ \/ pc = "dotnet_lines" /\ outcome = "ok"
       \/ pc = "detect_dotnet" /\ outcome \in {"returncode", "FileNotFoundError"}
    /\ frameworks' = Update(frameworks, installs)
    /\ installs' = EmptyDict
    /\ pc' = "detect_mssql"
    /\ UNCHANGED <<calls, sql_installs, installed_frameworks, dependencies, report, raised,
                   produced, procs_seen, items, eol_vars>>

\* subprocess.run raises something else than FileNotFoundError: no handler
\* in detect_dotnet_core, detect_frameworks or scan_all catches it
DotnetRaise(exc) ==
    /\ pc = "detect_dotnet"
    /\ pc' = "raised"
    /\ raised' = exc
    /\ UNCHANGED <<calls, installs, sql_installs, frameworks, installed_frameworks,
                   dependencies, report, produced, procs_seen, items, eol_vars>>

\* one iteration of detect_sql_server_instances' loop
MssqlEnumValue(i) ==
    /\ pc = "detect_mssql"
    /\ items < MaxItems
    /\ items' = items + 1
    /\ Store("mssql", mssql_findings[i])
    /\ UNCHANGED <<pc, calls, sql_installs, frameworks, installed_frameworks, dependencies,
                   report, raised, procs_seen, eol_vars>>

\* detect_sql_server_instances returns, at the end of its loop or from
\* `except Exception`, and detect_sql_databases merges its dict
MssqlReturn(exc) ==
    /\ pc = "detect_mssql"
    /\ sql_installs' = Update(sql_installs, installs)
    /\ installs' = EmptyDict
    /\ pc' = "detect_mysql"
    /\ UNCHANGED <<calls, frameworks, installed_frameworks, dependencies, report, raised,
                   produced, procs_seen, items, eol_vars>>

\* one iteration of detect_mysql_instances' loop
MysqlService(s) ==
    /\ pc = "detect_mysql"
    /\ items < MaxItems
    /\ items' = items + 1
    /\ Store("mysql", mysql_findings[s])
    /\ UNCHANGED <<pc, calls, sql_installs, frameworks, installed_frameworks, dependencies,
                   report, raised, procs_seen, eol_vars>>

\* detect_mysql_instances returns, at the end of its loop or from
\* `except Exception`, and detect_sql_databases merges its dict
MysqlReturn(exc) ==
    /\ pc = "detect_mysql"
    /\ sql_installs' = Update(sql_installs, installs)
    /\ installs' = EmptyDict
    /\ pc' = "detect_postgresql"
    /\ UNCHANGED <<calls, frameworks, installed_frameworks, dependencies, report, raised,
                   produced, procs_seen, items, eol_vars>>

\* one iteration of detect_postgresql_instances' loop
PostgresqlService(s) ==
    /\ pc = "detect_postgresql"
    /\ items < MaxItems
    /\ items' = items + 1
    /\ Store("postgresql", postgresql_findings[s])
    /\ UNCHANGED <<pc, calls, sql_installs, frameworks, installed_frameworks, dependencies,
                   report, raised, procs_seen, eol_vars>>

\* detect_postgresql_instances returns, at the end of its loop or from
\* `except Exception`, and detect_sql_databases merges its dict
PostgresqlReturn(exc) ==
    /\ pc = "detect_postgresql"
    /\ sql_installs' = Update(sql_installs, installs)
    /\ installs' = EmptyDict
    /\ pc' = "detect_frameworks_return"
    /\ UNCHANGED <<calls, frameworks, installed_frameworks, dependencies, report, raised,
                   produced, procs_seen, items, eol_vars>>

\* detect_sql_databases returns sql_installs; detect_frameworks merges it,
\* assigns self.installed_frameworks and returns
DetectFrameworksReturn ==
    /\ pc = "detect_frameworks_return"
    /\ frameworks' = Update(frameworks, sql_installs)
    /\ installed_frameworks' = Update(frameworks, sql_installs)
    /\ Returned("detect_frameworks")
    /\ UNCHANGED <<installs, sql_installs, dependencies, report, raised, produced,
                   procs_seen, items, eol_vars>>

\* one file below the program directories
ScanItem(f) ==
    /\ pc = "scan_installed_applications"
    /\ items < MaxItems
    /\ items' = items + 1
    /\ dependencies' = IF file_findings[f] # <<>>
                       THEN AppendTo(dependencies, "java", file_findings[f][1])
                       ELSE dependencies
    /\ UNCHANGED <<pc, calls, installs, sql_installs, frameworks, installed_frameworks,
                   report, raised, produced, procs_seen, eol_vars>>

ScanInstalledReturn ==
    /\ pc = "scan_installed_applications"
    /\ Returned("scan_installed_applications")
    /\ UNCHANGED <<installs, sql_installs, frameworks, installed_frameworks, dependencies,
                   report, raised, produced, procs_seen, items, eol_vars>>

\* one iteration of scan_running_processes' loop; the pid of a process is
\* its rank in the iteration
ScanProcess(proc) ==
    /\ pc = "scan_running_processes"
    /\ items < MaxItems
    /\ items' = items + 1
    /\ procs_seen' = Append(procs_seen, proc)
    /\ dependencies' = IF proc.exe # None
                       THEN analyze_running_process(dependencies, proc, Len(procs_seen) + 1)
                       ELSE dependencies
    /\ UNCHANGED <<pc, calls, installs, sql_installs, frameworks, installed_frameworks,
                   report, raised, produced, eol_vars>>

ScanRunningReturn ==
    /\ pc = "scan_running_processes"
    /\ Returned("scan_running_processes")
    /\ UNCHANGED <<installs, sql_installs, frameworks, installed_frameworks, dependencies,
                   report, raised, produced, procs_seen, items, eol_vars>>

GenerateReport ==
    /\ pc = "generate_report"
    /\ report' = generate_report(installed_frameworks, dependencies)
    /\ Returned("generate_report")
    /\ UNCHANGED <<installs, sql_installs, frameworks, installed_frameworks, dependencies,
                   raised, produced, procs_seen, items, eol_vars>>

\* what makes a detector's lookup fail inside its `except Exception`
LookupErrors == {"FileNotFoundError", "PermissionError"}

Next ==
    \/ ScanAll
    \/ \E e \in JavaEntries : JavaEnumKey(e)
    \/ \E exc \in LookupErrors \cup {None} : JavaReturn(exc)
    \/ DotnetRun
    \/ \E line \in DotnetLines : DotnetLine(line)
    \/ \E outcome \in {"ok", "returncode", "FileNotFoundError"} : DotnetReturn(outcome)
    \/ \E exc \in {"TimeoutExpired", "PermissionError"} : DotnetRaise(exc)
    \/ \E i \in MssqlInstances : MssqlEnumValue(i)
    \/ \E exc \in LookupErrors \cup {None} : MssqlReturn(exc)
    \/ \E s \in Services : MysqlService(s)
    \/ \E exc \in LookupErrors \cup {None} : MysqlReturn(exc)
    \/ \E s \in Services : PostgresqlService(s)
    \/ \E exc \in LookupErrors \cup {None} : PostgresqlReturn(exc)
    \/ DetectFrameworksReturn
    \/ \E f \in FsFiles : ScanItem(f)
    \/ ScanInstalledReturn
    \/ \E proc \in Procs : ScanProcess(proc)
    \/ ScanRunningReturn
    \/ GenerateReport

Spec == Init /\ [][Next]_vars

----------------------------------------------------------------------------
(* The EOL checkers as pure functions of a version string *)

VersionChars == {"3", "5", "6", "7", "8", "0", "1", "."}

\* the strings over VersionChars of length at most n
RECURSIVE Strings(_)
Strings(n) ==
    IF n = 0 THEN {""}
    ELSE LET shorter == Strings(n - 1)
         IN shorter \cup {s \o c : s \in shorter, c \in VersionChars}

\* version strings the checkers are applied to: every short string, the
\* versions the detectors of this model extract, and the MySQL fallback
EolInputs ==
    Strings(MaxLen) \cup {"6.0.25", "7.0.14", "8.0.1", "5.7.44", "4.1.22", "Unknown"}

EolInit ==
    /\ pc = "start"
    /\ calls = <<>>
    /\ installs = EmptyDict
    /\ sql_installs = EmptyDict
    /\ frameworks = EmptyDict
    /\ installed_frameworks = EmptyDict
    /\ dependencies = EmptyDict
    /\ report = None
    /\ raised = None
    /\ produced = <<>>
    /\ procs_seen = <<>>
    /\ items = 0
    /\ eol_fn = None
    /\ eol_v \in EolInputs
    /\ eol_res = None

CheckJavaEol ==
    /\ eol_fn = None
    /\ eol_fn' = "java"
    /\ eol_res' = check_java_eol(eol_v)
    /\ UNCHANGED <<eol_v, scan_vars>>

CheckDotnetCoreEol ==
    /\ eol_fn = None
    /\ eol_fn' = "dotnet_core"
    /\ eol_res' = check_dotnet_core_eol(eol_v)
    /\ UNCHANGED <<eol_v, scan_vars>>

CheckMssqlEol ==
    /\ eol_fn = None
    /\ eol_fn' = "mssql"
    /\ eol_res' = check_mssql_eol(eol_v)
    /\ UNCHANGED <<eol_v, scan_vars>>

CheckMysqlEol ==
    /\ eol_fn = None
    /\ eol_fn' = "mysql"
    /\ eol_res' = check_mysql_eol(eol_v)
    /\ UNCHANGED <<eol_v, scan_vars>>

CheckPostgresqlEol ==
    /\ eol_fn = None
    /\ eol_fn' = "postgresql"
    /\ eol_res' = check_postgresql_eol(eol_v)
    /\ UNCHANGED <<eol_v, scan_vars>>

EolNext ==
    \/ CheckJavaEol
    \/ CheckDotnetCoreEol
    \/ CheckMssqlEol
    \/ CheckMysqlEol
    \/ CheckPostgresqlEol

SpecEol == EolInit /\ [][EolNext]_vars

----------------------------------------------------------------------------
(* Claims *)

\* the events of one complete scan_all
CompleteCalls ==
    << <<"detect_frameworks", "start">>, <<"detect_frameworks", "end">>,
       <<"scan_installed_applications", "start">>, <<"scan_installed_applications", "end">>,
       <<"scan_running_processes", "start">>, <<"scan_running_processes", "end">>,
       <<"generate_report", "start">>, <<"generate_report", "end">> >>

\* C1: scan_all runs detect_frameworks, scan_installed_applications and
\* scan_running_processes one after the other, each at most once and each
\* only after the one before it has completed; generate_report is evaluated
\* only after all three have completed, and a scan that returns has run each
\* exactly once.
C1_PhasesInSequence ==
    /\ Len(calls) <= Len(CompleteCalls)
    /\ calls = SubSeq(CompleteCalls, 1, Len(calls))
    /\ pc = "done" => calls = CompleteCalls

C1_Witness ==
    /\ pc = "done"
    /\ calls = CompleteCalls
    /\ produced # <<>>
    /\ procs_seen # <<>>

\* C2: no error of a detector's OS lookup escapes the detector.
C2_NoDetectorErrorEscapes == raised = None

DetectFrameworksDone == \E i \in 1..Len(calls) : calls[i] = <<"detect_frameworks", "end">>

DetectorOrder == <<"java", "dotnet", "mssql", "mysql", "postgresql">>

ProducedKeys == {produced[i].key : i \in 1..Len(produced)}

LastProduced(k) ==
    produced[SetMax({i \in 1..Len(produced) : produced[i].key = k})]

\* C3: once detect_frameworks has returned, installed_frameworks holds one
\* entry for each distinct key the detectors produced and no other, and the
\* entry of a key is the record that was produced last under it, in the
\* order Java, dotnet CLI, SQL Server, MySQL, PostgreSQL.
C3_LastWriteWins ==
    DetectFrameworksDone =>
        /\ \A i, j \in 1..Len(produced) :
              i < j => IndexOf(DetectorOrder, produced[i].detector)
                          <= IndexOf(DetectorOrder, produced[j].detector)
        /\ DOMAIN installed_frameworks = ProducedKeys
        /\ Cardinality(DOMAIN installed_frameworks) = Cardinality(ProducedKeys)
        /\ \A k \in ProducedKeys : installed_frameworks[k] = LastProduced(k).rec

C3_Witness ==
    /\ DetectFrameworksDone
    /\ \E i, j \in 1..Len(produced) :
          /\ i < j
          /\ produced[i].key = produced[j].key
          /\ produced[i].detector # produced[j].detector
          /\ installed_frameworks[produced[j].key] = produced[j].rec
          /\ produced[i].rec # produced[j].rec

\* the EOL checker of a record type
CheckEol(type, v) ==
    CASE type = "java" -> check_java_eol(v)
      [] type = "dotnet_core" -> check_dotnet_core_eol(v)
      [] type = "mssql" -> check_mssql_eol(v)
      [] type = "mysql" -> check_mysql_eol(v)
      [] type = "postgresql" -> check_postgresql_eol(v)

\* C4: every record of installed_frameworks carries an eol_status that is
\* 'EOL', 'Supported' or 'Unknown' and is the result of the EOL checker of
\* the record's type applied to the record's version.
C4_EolClassified ==
    \A k \in DOMAIN installed_frameworks :
        LET r == installed_frameworks[k]
        IN /\ r.eol_status \in EolStatuses
           /\ r.eol_status = CheckEol(r.type, r.version)

C4_Witness ==
    /\ DetectFrameworksDone
    /\ \E k1, k2 \in DOMAIN installed_frameworks :
          /\ installed_frameworks[k1].type = "mysql"
          /\ installed_frameworks[k1].version = "4.1.22"
          /\ installed_frameworks[k2].type # "mysql"

\* C5: every dependency record of the report carries a 'confidence' and a
\* 'status' annotation.
C5_ConfidenceAndStatus ==
    pc = "done" =>
        \A c \in DOMAIN report.dependencies :
            \A i \in 1..Len(report.dependencies[c]) :
                {"confidence", "status"} \subseteq DOMAIN report.dependencies[c][i]

HasDotnetRecord(pid) ==
    /\ "dotnet_runtime" \in DOMAIN dependencies
    /\ \E i \in 1..Len(dependencies["dotnet_runtime"]) :
          dependencies["dotnet_runtime"][i].pid = pid

\* the path is ...\dotnet\shared\<app>\<version>\coreclr.dll...
UnderSharedRuntime(path) ==
    LET l == Lower(path)
    IN \E app \in {"microsoft.netcore.app", "microsoft.aspnetcore.app"} :
       \E i, j \in 1..Len(l) :
          /\ MatchAt(l, i, "\\dotnet\\shared\\" \o app \o "\\")
          /\ j > i + Len("\\dotnet\\shared\\" \o app \o "\\")
          /\ Positions(SubSeq(l, i + Len("\\dotnet\\shared\\" \o app \o "\\"), j - 1), "\\") = {}
          /\ MatchAt(l, j, "\\coreclr.dll")

QualifyingModule(path) ==
    \/ UnderSharedRuntime(path)
    \/ Contains(Lower(path), "coreclr.dll") /\ ~Contains(Lower(path), "microsoft.net")

\* a CLR module (clr.dll or coreclr.dll) of the .NET Framework: below a
\* Microsoft.NET directory and not in a shared .NET Core runtime directory
FrameworkModule(path) ==
    /\ Contains(Lower(path), "clr.dll")
    /\ Contains(Lower(path), "\\microsoft.net\\")
    /\ ~UnderSharedRuntime(path)

OnlyFrameworkModules(proc) ==
    /\ proc.maps_outcome = "ok"
    /\ \E k \in 1..Len(proc.maps) : FrameworkModule(proc.maps[k])
    /\ \A k \in 1..Len(proc.maps) :
          Contains(Lower(proc.maps[k]), "clr.dll") => FrameworkModule(proc.maps[k])

\* what the claim says of one process
ProcClaim(proc) ==
    /\ get_dotnet_core_version_from_process(proc)[1] # None =>
          /\ proc.maps_outcome = "ok"
          /\ \E k \in 1..Len(proc.maps) : QualifyingModule(proc.maps[k])
    /\ OnlyFrameworkModules(proc) =>
          get_dotnet_core_version_from_process(proc) = <<None, None>>
    /\ proc.maps_outcome \in {"AccessDenied", "NoSuchProcess"} =>
          get_dotnet_core_version_from_process(proc) = <<None, None>>

ProcClaims == [proc \in Procs |-> ProcClaim(proc)]
ProcOnlyFramework == [proc \in Procs |-> OnlyFrameworkModules(proc)]
ProcNoVersion == [proc \in Procs |-> get_dotnet_core_version_from_process(proc) = <<None, None>>]

\* C6: a 'dotnet_runtime' record is appended for a process only if its
\* memory map holds a coreclr.dll under dotnet\shared\<app>\<version>\ or on
\* a path without 'microsoft.net'; a process whose CLR modules all lie under
\* a Microsoft.NET directory yields no record and (None, None), as does one
\* whose memory map cannot be read.
C6_FrameworkExcluded ==
    \A pid \in 1..Len(procs_seen) :
        /\ ProcClaims[procs_seen[pid]]
        /\ HasDotnetRecord(pid) => ~ProcNoVersion[procs_seen[pid]]
        /\ ProcNoVersion[procs_seen[pid]] => ~HasDotnetRecord(pid)

C6_Witness ==
    /\ pc = "done"
    /\ \E p1, p2 \in 1..Len(procs_seen) :
          /\ ProcOnlyFramework[procs_seen[p1]]
          /\ ~HasDotnetRecord(p1)
          /\ HasDotnetRecord(p2)

\* int(major) of a version string, when its part before the first '.' is a number
HasMajor(v) == IsInt(Split(v, ".")[1])
Major(v) == ParseInt(Split(v, ".")[1])

\* C7: check_mysql_eol returns 'EOL' for every version with a major version
\* below 8 and 'Supported' for major version 8 and above, and does not
\* return 'Supported' for the version 'Unknown'.
C7_MysqlBefore8IsEol ==
    eol_fn = "mysql" =>
        /\ HasMajor(eol_v) /\ Major(eol_v) < 8 => eol_res = "EOL"
        /\ HasMajor(eol_v) /\ Major(eol_v) >= 8 => eol_res = "Supported"
        /\ eol_v = "Unknown" => eol_res # "Supported"

ListedEolPrefixes == {"1.0", "1.1", "2.0", "2.1", "2.2", "3.0", "3.1", "5.0", "6.0", "7.0"}

\* C8: check_dotnet_core_eol returns 'EOL' for every version that starts
\* with one of the listed prefixes and 'Supported' for every other version.
C8_DotnetListedPrefixesAreEol ==
    eol_fn = "dotnet_core" =>
        IF \E p \in ListedEolPrefixes : StartsWith(eol_v, p)
        THEN eol_res = "EOL"
        ELSE eol_res = "Supported"

====
